---- MODULE Spec2Model ----
(***************************************************************************)
(* safe-csv-db (package scd): a mutex-guarded in-memory table of CSV rows  *)
(* that a background worker (ListenChange) rewrites to the backing file    *)
(* whenever the buffered channel `changed` holds a notification, and that  *)
(* Close shuts down by closing the channel `close`.                        *)
(*                                                                         *)
(* The model follows the current Table implementation, src/scd.go lines    *)
(* 1-274.  Go slices are 0-based: the code's index i is the element i + 1  *)
(* of the TLA+ sequence.                                                   *)
(***************************************************************************)
EXTENDS Integers, Sequences, FiniteSets, TLC

\* ------------------------------------------------------------------ bounds
\* Largest number of rows the concurrent model lets t.rows grow to.
MaxRows == 2
\* Number of goroutines that insert in parallel (ParSpec).
NumCallers == 2
\* Largest number of rows in the sequential model of the operations.
SeqMaxRows == 3

\* A column index beyond the fields of every row.
FarCol == 5

\* ------------------------------------------------------------- constants
\* Capacity of the channel `changed`: make(chan struct{}, 1).
ChangedCap == 1

\* Field values; a row is a non-empty sequence of at most two of them.
Field == {"a", "b"}
Row == {<<x>> : x \in Field} \cup {<<x, y>> : x \in Field, y \in Field}
\* The rows the concurrent callers insert or write: a full row and a short
\* one.
ConcRow == {<<"a", "b">>, <<"a">>}
\* The one row of the model of the calls' and the shutdown's completion.
LiveRow == {<<"a", "b">>}
\* The column indices callers pass.
Cols == {0, 1}
Callers == 1 .. NumCallers
\* The callers of the general concurrent model.
Busy == {1, 2}
\* The row caller c inserts when every caller inserts a row of its own.
DistinctRow ==
    << <<"a", "b">>, <<"b", "a">>, <<"a">>, <<"b">>, <<"a", "a">>, <<"b", "b">> >>
RowOf(c) == DistinctRow[c]

SeqsUpTo(S, n) == UNION {[1 .. k -> S] : k \in 0 .. n}

\* ------------------------------------------------------- error values
\* nil, the two package errors, and the errors of the user's codec.
Nil == "nil"
FindOutOfIndex == "FindOutOfIndex"
ValueNotFound == "ValueNotFound"
EncodeError == "EncodeError"
DecodeError == "DecodeError"

\* --------------------------------------------- the scans, as the code runs
\* The result of a mutating scan: the rows it leaves, the error it returns.
Res(rs, err) == [rows |-> rs, err |-> err]

\* The records callers pass, and one whose ToRow returns an error.
Rec == {[Id |-> x, Name |-> y] : x \in Field, y \in Field}
Broken == [Id |-> "b", Name |-> "broken"]

\* ToRow of the record type of the tests: the two fields of the record.
\* (That of the tests never fails; the interface lets it.)
ToRowOk(rec) == rec # Broken
ToRow(rec) == <<rec.Id, rec.Name>>

\* The field values strconv.ParseInt accepts: of the two field values, "a"
\* stands for a number and "b" for a name that is no number.
IntField == {"a"}

\* FromRow of the record type of the tests: fails on a row of fewer than
\* two fields and on a first field that is no number.
FromRowOk(row) == Len(row) >= 2 /\ row[1] \in IntField

\* The record FromRow decodes from a row it accepts.
FromRow(row) == [Id |-> row[1], Name |-> row[2]]

\* What a read returns: its records (none for a nil result) and its error.
Got(recs, err) == [recs |-> recs, err |-> err]

\* Update: for i := 0; i < len(t.rows); i++ { ... }
RECURSIVE UpdateFrom(_, _, _, _, _)
UpdateFrom(rs, col, id, row, i) ==
    IF ~(i < Len(rs)) THEN Res(rs, ValueNotFound)
    ELSE IF col >= Len(rs[i + 1]) THEN Res(rs, FindOutOfIndex)
    ELSE IF rs[i + 1][col + 1] = id THEN Res([rs EXCEPT ![i + 1] = row], Nil)
    ELSE UpdateFrom(rs, col, id, row, i + 1)

Update(rs, col, id, row) == UpdateFrom(rs, col, id, row, 0)

\* UpdateAll: the same loop, which writes every match as it meets it and
\* returns at the first short row.
RECURSIVE UpdateAllFrom(_, _, _, _, _, _)
UpdateAllFrom(rs, col, by, row, i, updated) ==
    IF ~(i < Len(rs))
    THEN Res(rs, IF updated THEN Nil ELSE ValueNotFound)
    ELSE IF col >= Len(rs[i + 1]) THEN Res(rs, FindOutOfIndex)
    ELSE IF rs[i + 1][col + 1] = by
    THEN UpdateAllFrom([rs EXCEPT ![i + 1] = row], col, by, row, i + 1, TRUE)
    ELSE UpdateAllFrom(rs, col, by, row, i + 1, updated)

\* Mutant: UpdateAll never sets its flag `updated`.
UpdateAllUnflagged(rs, col, by, row) ==
    LET r == UpdateAllFrom(rs, col, by, row, 0, FALSE)
    IN  Res(r.rows, IF r.err = Nil THEN ValueNotFound ELSE r.err)

\* Mutant: UpdateAll stops at its first match, as Update does.
UpdateAllFirstOnly(rs, col, by, row) == UpdateFrom(rs, col, by, row, 0)

UpdateAll(rs, col, by, row) == UpdateAllFrom(rs, col, by, row, 0, FALSE)

\* Mutant: the rows after row i move up by one.
ShiftRemove(rs, i) == SubSeq(rs, 1, i) \o SubSeq(rs, i + 2, Len(rs))

\* t.rows[i] = t.rows[len(t.rows)-1]; t.rows = t.rows[:len(t.rows)-1]
SwapRemove(rs, i) ==
    SubSeq([rs EXCEPT ![i + 1] = rs[Len(rs)]], 1, Len(rs) - 1)

\* Delete: removes the first match.
RECURSIVE DeleteFrom(_, _, _, _)
DeleteFrom(rs, col, id, i) ==
    IF ~(i < Len(rs)) THEN Res(rs, ValueNotFound)
    ELSE IF col >= Len(rs[i + 1]) THEN Res(rs, FindOutOfIndex)
    ELSE IF rs[i + 1][col + 1] = id THEN Res(SwapRemove(rs, i), Nil)
    ELSE DeleteFrom(rs, col, id, i + 1)

\* Mutant: Delete finds the row and leaves t.rows as it is.
DeleteUnremoved(rs, col, id) == Res(rs, DeleteFrom(rs, col, id, 0).err)

Delete(rs, col, id) == DeleteFrom(rs, col, id, 0)

\* DeleteAll: for i := len(t.rows) - 1; i >= 0; i-- { ... }
RECURSIVE DeleteAllFrom(_, _, _, _, _)
DeleteAllFrom(rs, col, by, i, deleted) ==
    IF ~(i >= 0)
    THEN Res(rs, IF deleted THEN Nil ELSE ValueNotFound)
    ELSE IF col >= Len(rs[i + 1]) THEN Res(rs, FindOutOfIndex)
    ELSE IF rs[i + 1][col + 1] = by
    THEN DeleteAllFrom(SwapRemove(rs, i), col, by, i - 1, TRUE)
    ELSE DeleteAllFrom(rs, col, by, i - 1, deleted)

\* Mutant: DeleteAll scans from the first row to the last, so the row it
\* swaps into a deleted slot is never visited.
RECURSIVE DeleteAllForwardFrom(_, _, _, _, _)
DeleteAllForwardFrom(rs, col, by, i, deleted) ==
    IF ~(i < Len(rs))
    THEN Res(rs, IF deleted THEN Nil ELSE ValueNotFound)
    ELSE IF col >= Len(rs[i + 1]) THEN Res(rs, FindOutOfIndex)
    ELSE IF rs[i + 1][col + 1] = by
    THEN DeleteAllForwardFrom(SwapRemove(rs, i), col, by, i + 1, TRUE)
    ELSE DeleteAllForwardFrom(rs, col, by, i + 1, deleted)

DeleteAllForward(rs, col, by) == DeleteAllForwardFrom(rs, col, by, 0, FALSE)

DeleteAll(rs, col, by) == DeleteAllFrom(rs, col, by, Len(rs) - 1, FALSE)

\* Select: the error of the scan for the first match.
RECURSIVE SelectFrom(_, _, _, _)
SelectFrom(rs, col, id, i) ==
    IF ~(i < Len(rs)) THEN Nil
    ELSE IF col >= Len(rs[i + 1]) THEN FindOutOfIndex
    ELSE IF rs[i + 1][col + 1] = id
    THEN (IF FromRowOk(rs[i + 1]) THEN Nil ELSE DecodeError)
    ELSE SelectFrom(rs, col, id, i + 1)

Select(rs, col, id) == SelectFrom(rs, col, id, 0)

\* Mutant: Select passes over a row that is too short for column col.
RECURSIVE SelectSkipShortFrom(_, _, _, _)
SelectSkipShortFrom(rs, col, id, i) ==
    IF ~(i < Len(rs)) THEN Got(<<>>, Nil)
    ELSE IF col < Len(rs[i + 1]) /\ rs[i + 1][col + 1] = id
    THEN (IF FromRowOk(rs[i + 1])
          THEN Got(<<FromRow(rs[i + 1])>>, Nil)
          ELSE Got(<<>>, DecodeError))
    ELSE SelectSkipShortFrom(rs, col, id, i + 1)

SelectSkipShort(rs, col, id) == SelectSkipShortFrom(rs, col, id, 0)

\* Select: the record and the error it returns.
RECURSIVE SelectRecFrom(_, _, _, _)
SelectRecFrom(rs, col, id, i) ==
    IF ~(i < Len(rs)) THEN Got(<<>>, Nil)
    ELSE IF col >= Len(rs[i + 1]) THEN Got(<<>>, FindOutOfIndex)
    ELSE IF rs[i + 1][col + 1] = id
    THEN (IF FromRowOk(rs[i + 1])
          THEN Got(<<FromRow(rs[i + 1])>>, Nil)
          ELSE Got(<<>>, DecodeError))
    ELSE SelectRecFrom(rs, col, id, i + 1)

SelectRec(rs, col, id) == SelectRecFrom(rs, col, id, 0)

\* SelectAll: the error of the scan for every match.
RECURSIVE SelectAllFrom(_, _, _, _)
SelectAllFrom(rs, col, by, i) ==
    IF ~(i < Len(rs)) THEN Nil
    ELSE IF col >= Len(rs[i + 1]) THEN FindOutOfIndex
    ELSE IF rs[i + 1][col + 1] = by /\ ~FromRowOk(rs[i + 1]) THEN DecodeError
    ELSE SelectAllFrom(rs, col, by, i + 1)

SelectAll(rs, col, by) == SelectAllFrom(rs, col, by, 0)

\* All: the error of decoding every row.
RECURSIVE AllFrom(_, _)
AllFrom(rs, i) ==
    IF ~(i < Len(rs)) THEN Nil
    ELSE IF ~FromRowOk(rs[i + 1]) THEN DecodeError
    ELSE AllFrom(rs, i + 1)

All(rs) == AllFrom(rs, 0)

\* Mutant: All returns the records of the rows from the last to the first.
RECURSIVE AllRecsBackFrom(_, _, _)
AllRecsBackFrom(rs, i, res) ==
    IF ~(i < Len(rs)) THEN Got(res, Nil)
    ELSE IF ~FromRowOk(rs[i + 1]) THEN Got(<<>>, DecodeError)
    ELSE AllRecsBackFrom(rs, i + 1, <<FromRow(rs[i + 1])>> \o res)

AllRecsBack(rs) == AllRecsBackFrom(rs, 0, <<>>)

\* All: the records and the error it returns.
RECURSIVE AllRecsFrom(_, _, _)
AllRecsFrom(rs, i, res) ==
    IF ~(i < Len(rs)) THEN Got(res, Nil)
    ELSE IF ~FromRowOk(rs[i + 1]) THEN Got(<<>>, DecodeError)
    ELSE AllRecsFrom(rs, i + 1, Append(res, FromRow(rs[i + 1])))

AllRecs(rs) == AllRecsFrom(rs, 0, <<>>)

\* Mutant: the rows of the batch are appended from the last to the first.
RECURSIVE Reversed(_)
Reversed(batch) ==
    IF batch = <<>> THEN <<>> ELSE Append(Reversed(Tail(batch)), Head(batch))

AppendReversed(rs, batch) == rs \o Reversed(batch)

\* Mutant: the new rows are put before the rows of the table.
PrependRows(rs, batch) == batch \o rs

\* Insert and InsertAll: append(t.rows, rows...)
AppendRows(rs, batch) == rs \o batch


\* Mutant: InsertAll passes over a record that ToRow fails on.
RECURSIVE EncodeAllSkipFrom(_, _, _)
EncodeAllSkipFrom(records, i, rs) ==
    IF ~(i < Len(records)) THEN Res(rs, Nil)
    ELSE IF ~ToRowOk(records[i + 1]) THEN EncodeAllSkipFrom(records, i + 1, rs)
    ELSE EncodeAllSkipFrom(records, i + 1, Append(rs, ToRow(records[i + 1])))

EncodeAllSkip(records) == EncodeAllSkipFrom(records, 0, <<>>)

\* InsertAll: for _, record := range records { row, err := record.ToRow() ... }
RECURSIVE EncodeAllFrom(_, _, _)
EncodeAllFrom(records, i, rs) ==
    IF ~(i < Len(records)) THEN Res(rs, Nil)
    ELSE IF ~ToRowOk(records[i + 1]) THEN Res(<<>>, EncodeError)
    ELSE EncodeAllFrom(records, i + 1, Append(rs, ToRow(records[i + 1])))

EncodeAll(records) == EncodeAllFrom(records, 0, <<>>)

\* A call that encodes before it locks: it returns the error of the
\* encoding, or goes on to what it does with the rows.
InsertRecs(rs, records) ==
    LET e == EncodeAll(records)
    IN  IF e.err # Nil THEN Res(rs, e.err) ELSE Res(AppendRows(rs, e.rows), Nil)

UpdateRec(rs, col, id, rec) ==
    IF ~ToRowOk(rec) THEN Res(rs, EncodeError) ELSE Update(rs, col, id, ToRow(rec))

UpdateAllRec(rs, col, by, rec) ==
    IF ~ToRowOk(rec) THEN Res(rs, EncodeError) ELSE UpdateAll(rs, col, by, ToRow(rec))

\* ------------------------------------------------ channels and the mutex
\* Mutant: Lock does not wait.
LockNoWait(m) == TRUE

\* Lock blocks until the mutex is unlocked (sync.Mutex has no owner).
LockReady(m) == ~m

\* Mutant: a plain send, which blocks while the channel is full.
SendBlocks(ch) == ch < ChangedCap

\* A send in a select with a default case never blocks ...
SendReady(ch) == TRUE

\* Mutant: the notification is queued behind the pending one.
OfferQueued(ch) == ch + 1

\* ... it buffers the notification if the channel has room and drops it
\* otherwise.  ch is the number of buffered notifications.
Offer(ch) == IF ch < ChangedCap THEN ch + 1 ELSE ch

\* ------------------------------------------------------------------ state
VARIABLES
    rows,       \* t.rows
    file,       \* the records the backing file holds
    changed,    \* number of notifications buffered in t.changed
    closeCh,    \* TRUE once t.close is closed
    closeRet,   \* TRUE once Close has returned
    mutex,      \* TRUE while t.mutex is locked
    wpc,        \* where ListenChange stands
    pc,         \* pc[c]: where caller c stands in its call
    op,         \* op[c]: the operation caller c runs, once it holds the lock
    ret,        \* ret[c]: the error the call of caller c is about to return
    local,      \* local[c]: the slice Insert/InsertAll read for its append
    seen,       \* seen[c]: the worker received a notification after the
                \* change of caller c was applied
    inserted,   \* parallel inserts: the callers whose Insert has returned
    before,     \* sequential model: t.rows before the last mutating call
    call,       \* sequential model: the last mutating call and its result
    read,       \* sequential model: the last read since then and its result
    log         \* insertion order: the rows appended so far, in order

vars == <<rows, file, changed, closeCh, closeRet, mutex, wpc, pc, op, ret,
          local, seen, inserted, before, call, read, log>>

\* The variables only the parallel-insert and the sequential model write.
aux == <<inserted, before, call, read, log>>

Mutators == {"Insert", "InsertAll", "Update", "UpdateAll", "Delete", "DeleteAll"}
Readers == {"All", "Select", "SelectAll"}
Appenders == {"Insert", "InsertAll"}
Encoders == {"Insert", "InsertAll", "Update", "UpdateAll"}
Kinds == Mutators \cup Readers

NoCall == [kind |-> "none"]
NoRead == [kind |-> "none"]

\* OpenTable: the rows are those read from the file; nothing is buffered,
\* nothing is locked, ListenChange has not been called.
Init ==
    /\ rows = <<>>
    /\ file = <<>>
    /\ changed = 0
    /\ closeCh = FALSE
    /\ closeRet = FALSE
    /\ mutex = FALSE
    /\ wpc = "notStarted"
    /\ pc = [c \in Callers |-> "idle"]
    /\ op = [c \in Callers |-> "none"]
    /\ ret = [c \in Callers |-> "none"]
    /\ local = [c \in Callers |-> <<>>]
    /\ seen = [c \in Callers |-> FALSE]
    /\ inserted = {}
    /\ before = <<>>
    /\ call = NoCall
    /\ read = NoRead
    /\ log = <<>>

\* A panic of the worker goroutine ends the process: no goroutine takes a
\* step any more.
Alive == wpc # "panicked"

\* ---------------------------------------------------------------- callers
\* The call of caller c returns: nothing of it is left.
Returned(c) ==
    /\ pc' = [pc EXCEPT ![c] = "idle"]
    /\ op' = [op EXCEPT ![c] = "none"]
    /\ ret' = [ret EXCEPT ![c] = "none"]
    /\ seen' = [seen EXCEPT ![c] = FALSE]

\* Caller c calls an operation, whose records ToRow encodes, and reaches
\* t.mutex.Lock().  Until it holds the lock, calls of all operations are
\* alike.
Call(c) ==
    /\ Alive
    /\ pc[c] = "idle"
    /\ pc' = [pc EXCEPT ![c] = "lock"]
    /\ UNCHANGED <<rows, file, changed, closeCh, closeRet, mutex, wpc, op, ret,
                   local, seen, aux>>

\* Caller c calls an operation that encodes a record, and ToRow fails: the
\* call returns the error before it takes the lock.
EncodeFail(c, kind) ==
    /\ Alive
    /\ pc[c] = "idle"
    /\ kind \in Encoders
    /\ UNCHANGED <<rows, file, changed, closeCh, closeRet, mutex, wpc, pc, op,
                   ret, local, seen, aux>>

\* t.mutex.Lock() of a call of `kind`.  (An Insert is not called on a full
\* table: MaxRows bounds the model.)
Lock(c, kind) ==
    /\ Alive
    /\ pc[c] = "lock"
    /\ LockReady(mutex)
    /\ kind = "Insert" => Len(rows) < MaxRows
    /\ mutex' = TRUE
    /\ op' = [op EXCEPT ![c] = kind]
    /\ pc' = [pc EXCEPT ![c] = IF kind \in Appenders THEN "load" ELSE "body"]
    /\ UNCHANGED <<rows, file, changed, closeCh, closeRet, wpc, ret, local,
                   seen, aux>>

\* t.rows = append(t.rows, ...): the read of t.rows ...
AppendLoad(c) ==
    /\ Alive
    /\ pc[c] = "load"
    /\ local' = [local EXCEPT ![c] = rows]
    /\ pc' = [pc EXCEPT ![c] = "store"]
    /\ UNCHANGED <<rows, file, changed, closeCh, closeRet, mutex, wpc, op, ret,
                   seen, aux>>

\* ... and the write of the appended slice: one row for Insert, the rows
\* of the batch for InsertAll.  The table grows to at most max rows.
AppendStoreUpTo(c, batch, max) ==
    /\ Alive
    /\ pc[c] = "store"
    /\ op[c] = "Insert" => Len(batch) = 1
    /\ Len(local[c]) + Len(batch) <= max
    /\ rows' = AppendRows(local[c], batch)
    /\ local' = [local EXCEPT ![c] = <<>>]
    /\ ret' = [ret EXCEPT ![c] = Nil]
    /\ pc' = [pc EXCEPT ![c] = "unlock"]
    /\ UNCHANGED <<file, changed, closeCh, closeRet, mutex, wpc, op, seen,
                   aux>>

AppendStore(c, batch) == AppendStoreUpTo(c, batch, MaxRows)

\* Mutant: the scan of a mutating call goes on to the deferred unlock
\* without the send.
ScannedNoSend(c, kind, r) ==
    /\ Alive
    /\ pc[c] = "body"
    /\ op[c] = kind
    /\ rows' = r.rows
    /\ ret' = [ret EXCEPT ![c] = r.err]
    /\ pc' = [pc EXCEPT ![c] = "unlock"]
    /\ UNCHANGED <<file, changed, closeCh, closeRet, mutex, wpc, op, local,
                   seen, aux>>

\* Mutant: the scan of a mutating call goes on to the send whether or not
\* it found its row.
ScannedAlwaysSend(c, kind, r) ==
    /\ Alive
    /\ pc[c] = "body"
    /\ op[c] = kind
    /\ rows' = r.rows
    /\ ret' = [ret EXCEPT ![c] = r.err]
    /\ pc' = [pc EXCEPT ![c] = "send"]
    /\ UNCHANGED <<file, changed, closeCh, closeRet, mutex, wpc, op, local,
                   seen, aux>>

\* Mutant: a mutating call that fails returns its error without the
\* unlock.
ScannedLeaksLock(c, kind, r) ==
    /\ Alive
    /\ pc[c] = "body"
    /\ op[c] = kind
    /\ rows' = r.rows
    /\ IF r.err = Nil
       THEN /\ ret' = [ret EXCEPT ![c] = Nil]
            /\ pc' = [pc EXCEPT ![c] = "send"]
            /\ UNCHANGED <<op, seen>>
       ELSE Returned(c)
    /\ UNCHANGED <<file, changed, closeCh, closeRet, mutex, wpc, local, aux>>

\* The scan of a mutating call, under the lock: r is what it leaves.
Scanned(c, kind, r) ==
    /\ Alive
    /\ pc[c] = "body"
    /\ op[c] = kind
    /\ rows' = r.rows
    /\ ret' = [ret EXCEPT ![c] = r.err]
    /\ pc' = [pc EXCEPT ![c] = IF r.err = Nil THEN "send" ELSE "unlock"]
    /\ UNCHANGED <<file, changed, closeCh, closeRet, mutex, wpc, op, local,
                   seen, aux>>

UpdateBody(c, col, id, row) == Scanned(c, "Update", Update(rows, col, id, row))
UpdateAllBody(c, col, by, row) == Scanned(c, "UpdateAll", UpdateAll(rows, col, by, row))
DeleteBody(c, col, id) == Scanned(c, "Delete", Delete(rows, col, id))
DeleteAllBody(c, col, by) == Scanned(c, "DeleteAll", DeleteAll(rows, col, by))

\* The scan of a read-only call, under the lock: err is what it returns.
Read(c, kind, err) ==
    /\ Alive
    /\ pc[c] = "body"
    /\ op[c] = kind
    /\ ret' = [ret EXCEPT ![c] = err]
    /\ pc' = [pc EXCEPT ![c] = "unlock"]
    /\ UNCHANGED <<rows, file, changed, closeCh, closeRet, mutex, wpc, op,
                   local, seen, aux>>

AllBody(c) == Read(c, "All", All(rows))
SelectBody(c, col, id) == Read(c, "Select", Select(rows, col, id))
SelectAllBody(c, col, by) == Read(c, "SelectAll", SelectAll(rows, col, by))

\* select { case t.changed <- struct{}{}: default: }
\* Insert and InsertAll send after the unlock and return nil; the others
\* send before their deferred unlock.
SendStep(c) ==
    /\ Alive
    /\ pc[c] = "send"
    /\ SendReady(changed)
    /\ changed' = Offer(changed)
    /\ IF op[c] \in Appenders
       THEN Returned(c)
       ELSE pc' = [pc EXCEPT ![c] = "unlock"] /\ UNCHANGED <<op, ret, seen>>
    /\ UNCHANGED <<rows, file, closeCh, closeRet, mutex, wpc, local,
                   before, call, read, log>>

Send(c) == SendStep(c) /\ UNCHANGED inserted

\* t.mutex.Unlock(): in Insert and InsertAll before the send, in the others
\* deferred to the return.
Unlock(c) ==
    /\ Alive
    /\ pc[c] = "unlock"
    /\ mutex' = FALSE
    /\ IF op[c] \in Appenders
       THEN pc' = [pc EXCEPT ![c] = "send"] /\ UNCHANGED <<op, ret, seen>>
       ELSE Returned(c)
    /\ UNCHANGED <<rows, file, changed, closeCh, closeRet, wpc, local,
                   aux>>

\* The steps of the call of caller c once it holds the lock; R is the set
\* of rows callers encode.
CallerProgress(c, R) ==
    \/ AppendLoad(c)
    \/ \E batch \in SeqsUpTo(R, MaxRows) : AppendStore(c, batch)
    \/ \E col \in Cols, id \in Field, row \in R : UpdateBody(c, col, id, row)
    \/ \E col \in Cols, by \in Field, row \in R : UpdateAllBody(c, col, by, row)
    \/ \E col \in Cols, id \in Field : DeleteBody(c, col, id)
    \/ \E col \in Cols, by \in Field : DeleteAllBody(c, col, by)
    \/ AllBody(c)
    \/ \E col \in Cols, id \in Field : SelectBody(c, col, id)
    \/ \E col \in Cols, by \in Field : SelectAllBody(c, col, by)
    \/ Send(c)
    \/ Unlock(c)

\* ----------------------------------------------------------- the worker
\* A caller whose successful change is in t.rows and whose call has not
\* returned yet.
Applied(c) == op[c] \in Mutators /\ ret[c] = Nil

\* ListenChange is called (in a goroutine of its own) and reaches its select.
ListenChange ==
    /\ wpc = "notStarted"
    /\ wpc' = "select"
    /\ UNCHANGED <<rows, file, changed, closeCh, closeRet, mutex, pc, op, ret,
                   local, seen, aux>>

\* Mutant: the worker goes on receiving notifications after it has closed
\* the file.
RecvChangedAfterClose ==
    /\ wpc \in {"select", "closed"}
    /\ changed > 0
    /\ changed' = changed - 1
    /\ wpc' = "lock"
    /\ seen' = [c \in Callers |-> Applied(c)]
    /\ UNCHANGED <<rows, file, closeCh, closeRet, mutex, pc, op, ret, local,
                   aux>>

\* case <-t.changed: the notification leaves the channel.
RecvChanged ==
    /\ wpc = "select"
    /\ changed > 0
    /\ changed' = changed - 1
    /\ wpc' = "lock"
    /\ seen' = [c \in Callers |-> Applied(c)]
    /\ UNCHANGED <<rows, file, closeCh, closeRet, mutex, pc, op, ret, local,
                   aux>>

\* t.mutex.Lock()
WorkerLock ==
    /\ wpc = "lock"
    /\ LockReady(mutex)
    /\ mutex' = TRUE
    /\ wpc' = "flush"
    /\ UNCHANGED <<rows, file, changed, closeCh, closeRet, pc, op, ret, local,
                   seen, aux>>

\* Mutant: a flush without a failure leaves the last record out.
FlushedPrefix(f, rs, fail, k) ==
    CASE fail = "truncate" -> f
      [] fail = "seek" -> <<>>
      [] fail = "write" -> SubSeq(rs, 1, k)
      [] OTHER -> SubSeq(rs, 1, Len(rs) - 1)

\* What Truncate(0), Seek(0, 0) and csv.Writer.WriteAll(rs) leave in the
\* file f: f when Truncate fails, nothing when Seek fails, the first k
\* records when WriteAll fails, every record when none fails.  The file is
\* modelled by the records it holds.
Flushed(f, rs, fail, k) ==
    CASE fail = "truncate" -> f
      [] fail = "seek" -> <<>>
      [] fail = "write" -> SubSeq(rs, 1, k)
      [] OTHER -> rs

Failures == {"truncate", "seek", "write"}

\* Mutant: a failure of the flush is swallowed, the worker unlocks and goes
\* back to its select.
FlushSwallow(fail, k) ==
    /\ wpc = "flush"
    /\ k <= Len(rows)
    /\ fail # "write" => k = 0
    /\ file' = Flushed(file, rows, fail, k)
    /\ wpc' = "select"
    /\ mutex' = FALSE
    /\ UNCHANGED <<rows, changed, closeCh, closeRet, pc, op, ret, local, seen,
                   aux>>

\* The flush under the lock; panic(err) on a failure ends the process with
\* the mutex locked, otherwise t.mutex.Unlock() and back to the select.
Flush(fail, k) ==
    /\ wpc = "flush"
    /\ k <= Len(rows)
    /\ fail # "write" => k = 0
    /\ file' = Flushed(file, rows, fail, k)
    /\ IF fail \in Failures
       THEN wpc' = "panicked" /\ mutex' = mutex
       ELSE wpc' = "select" /\ mutex' = FALSE
    /\ UNCHANGED <<rows, changed, closeCh, closeRet, pc, op, ret, local, seen,
                   aux>>

\* Mutant: the close case is taken only when no notification is pending.
RecvCloseWhenQuiet ==
    /\ wpc = "select"
    /\ closeCh
    /\ changed = 0
    /\ wpc' = "closed"
    /\ UNCHANGED <<rows, file, changed, closeCh, closeRet, mutex, pc, op, ret,
                   local, seen, aux>>

\* case <-t.close: return t.file.Close()
RecvClose ==
    /\ wpc = "select"
    /\ closeCh
    /\ wpc' = "closed"
    /\ UNCHANGED <<rows, file, changed, closeCh, closeRet, mutex, pc, op, ret,
                   local, seen, aux>>

Running == wpc \in {"select", "lock", "flush"}

\* Mutant: Close offers the request as callers offer a notification, so it
\* is dropped unless the worker waits in its select.
CloseBySend ==
    /\ Alive
    /\ ~closeRet
    /\ closeCh' = (wpc = "select")
    /\ closeRet' = TRUE
    /\ UNCHANGED <<rows, file, changed, mutex, wpc, pc, op, ret, local, seen,
                   aux>>

\* Close: close(t.close), and the call returns.  It is called once.
Close ==
    /\ Alive
    /\ ~closeCh
    /\ closeCh' = TRUE
    /\ closeRet' = TRUE
    /\ UNCHANGED <<rows, file, changed, mutex, wpc, pc, op, ret, local, seen,
                   aux>>

\* ------------------------------------------- the general concurrent model
\* A step of the call of caller c; R is the set of rows callers encode.
CallerStep(c, R) ==
    \/ \E kind \in Kinds : Lock(c, kind)
    \/ CallerProgress(c, R)

WorkerStep ==
    \/ RecvChanged
    \/ WorkerLock
    \/ \E fail \in Failures \cup {"none"}, k \in 0 .. MaxRows : Flush(fail, k)
    \/ RecvClose

\* Two callers call any operations at any time, ListenChange is called at
\* some time, Close at most once.
Next ==
    \/ \E c \in Busy : Call(c)
    \/ \E c \in Busy, kind \in Encoders : EncodeFail(c, kind)
    \/ \E c \in Busy : CallerStep(c, ConcRow)
    \/ ListenChange
    \/ WorkerStep
    \/ Close

Spec == Init /\ [][Next]_vars

\* ------------------------------------------------------------- fairness
\* The steps of a call that holds or needs no lock are taken once they can
\* be.  sync.Mutex hands a starving waiter the lock (starvation mode), so a
\* Lock that can succeed again and again does succeed.  The select of
\* ListenChange picks among its ready cases uniformly at random, so a case
\* that is ready again and again is picked.
Fairness(R) ==
    /\ \A c \in Busy : WF_vars(CallerProgress(c, R))
    /\ \A c \in Busy : SF_vars(\E kind \in Kinds : Lock(c, kind))
    /\ SF_vars(RecvChanged)
    /\ SF_vars(RecvClose)
    /\ SF_vars(WorkerLock)
    /\ WF_vars(\E fail \in Failures \cup {"none"}, k \in 0 .. MaxRows : Flush(fail, k))

FairSpec == Init /\ [][Next]_vars /\ Fairness(ConcRow)

\* The same model over a single row: whether a call or the shutdown
\* completes does not depend on the fields of the rows.
LiveNext ==
    \/ \E c \in Busy : Call(c)
    \/ \E c \in Busy, kind \in Encoders : EncodeFail(c, kind)
    \/ \E c \in Busy : CallerStep(c, LiveRow)
    \/ ListenChange
    \/ WorkerStep
    \/ Close

LiveSpec == Init /\ [][LiveNext]_vars /\ Fairness(LiveRow)

\* ------------------------------------------------- an orderly shutdown
\* The executions in which Close is called while the worker runs and no
\* call is in progress, and no call begins after it.
ShutCall(c) == ~closeCh /\ Call(c)

ShutClose == Running /\ (\A c \in Busy : pc[c] = "idle") /\ Close

ShutNext ==
    \/ \E c \in Busy : ShutCall(c)
    \/ \E c \in Busy : CallerStep(c, ConcRow)
    \/ ListenChange
    \/ WorkerStep
    \/ ShutClose

ShutSpec == Init /\ [][ShutNext]_vars

\* ------------------------------------------------- a shutdown when idle
\* The executions in which Close is called while the worker waits in its
\* select, no notification is pending and no call is in progress: every
\* notification the worker receives after it is that of a call made after
\* the call of Close.
LateClose ==
    /\ wpc = "select"
    /\ changed = 0
    /\ \A c \in Busy : pc[c] = "idle"
    /\ Close

LateNext ==
    \/ \E c \in Busy : Call(c)
    \/ \E c \in Busy, kind \in Encoders : EncodeFail(c, kind)
    \/ \E c \in Busy : CallerStep(c, ConcRow)
    \/ ListenChange
    \/ WorkerStep
    \/ LateClose

LateSpec == Init /\ [][LateNext]_vars

\* ----------------------------------------------------- parallel inserts
\* Every caller calls Insert once, with a row of its own, while the worker
\* flushes.
ParCall(c) == c \notin inserted /\ Call(c)

ParLock(c) == Lock(c, "Insert")

ParStore(c) == AppendStore(c, <<RowOf(c)>>)

ParSend(c) == SendStep(c) /\ inserted' = inserted \cup {c}

ParNext ==
    \/ \E c \in Callers : ParCall(c)
    \/ \E c \in Callers : ParLock(c)
    \/ \E c \in Callers : AppendLoad(c)
    \/ \E c \in Callers : ParStore(c)
    \/ \E c \in Callers : Unlock(c)
    \/ \E c \in Callers : ParSend(c)
    \/ ListenChange
    \/ RecvChanged
    \/ WorkerLock
    \/ \E fail \in Failures \cup {"none"}, k \in 0 .. MaxRows : Flush(fail, k)

ParSpec == Init /\ [][ParNext]_vars

\* ----------------------------------------------------- parallel batches
\* Each of the two callers calls InsertAll once, with a batch of two rows
\* of its own, while the worker flushes.
BatchOf(c) == <<DistinctRow[2 * c - 1], DistinctRow[2 * c]>>

BatchRows == Len(BatchOf(1)) + Len(BatchOf(2))

BatchLock(c) == Lock(c, "InsertAll")

BatchStore(c) == AppendStoreUpTo(c, BatchOf(c), BatchRows)

BatchNext ==
    \/ \E c \in Busy : ParCall(c)
    \/ \E c \in Busy : BatchLock(c)
    \/ \E c \in Busy : AppendLoad(c)
    \/ \E c \in Busy : BatchStore(c)
    \/ \E c \in Busy : Unlock(c)
    \/ \E c \in Busy : ParSend(c)
    \/ ListenChange
    \/ RecvChanged
    \/ WorkerLock
    \/ \E fail \in Failures \cup {"none"}, k \in 0 .. BatchRows : Flush(fail, k)

BatchSpec == Init /\ [][BatchNext]_vars

\* ------------------------------------------------- the sequential model
\* One caller, no worker: every call runs from its Lock to its return
\* before the next begins.  before and call record the last call.
Scanners == {"Update", "UpdateAll", "Delete", "DeleteAll"}

\* The whole of a call that leaves r: the scan under the lock and, on
\* success, the send.
SeqDo(c, r) ==
    /\ before' = rows
    /\ call' = [c EXCEPT !.err = r.err]
    /\ read' = NoRead
    /\ rows' = r.rows
    /\ changed' = IF r.err = Nil THEN Offer(changed) ELSE changed
    /\ UNCHANGED <<file, closeCh, closeRet, mutex, wpc, pc, op, ret, local,
                   seen, inserted>>

SeqCall(c, r) == SeqDo(c, r) /\ UNCHANGED log

\* The whole of a read that returns g.
SeqRead(c, g) ==
    /\ read' = [c EXCEPT !.err = g.err, !.res = g.recs]
    /\ UNCHANGED <<rows, file, changed, closeCh, closeRet, mutex, wpc, pc, op,
                   ret, local, seen, inserted, before, call, log>>

Asked(kind, col, key) ==
    [kind |-> kind, col |-> col, key |-> key, res |-> <<>>, err |-> Nil]

SeqAll == SeqRead(Asked("All", 0, ""), AllRecs(rows))

SeqSelect(col, id) == SeqRead(Asked("Select", col, id), SelectRec(rows, col, id))

Args(kind, col, key, row) ==
    [kind |-> kind, col |-> col, key |-> key, row |-> row, err |-> Nil]

SeqInsert(row) ==
    /\ Len(rows) < SeqMaxRows
    /\ SeqCall(Args("Insert", 0, "", row), Res(AppendRows(rows, <<row>>), Nil))

SeqInsertAll(batch) ==
    /\ Len(rows) + Len(batch) <= SeqMaxRows
    /\ SeqCall(Args("InsertAll", 0, "", batch), Res(AppendRows(rows, batch), Nil))

SeqUpdate(col, id, row) ==
    SeqCall(Args("Update", col, id, row), Update(rows, col, id, row))

SeqUpdateAll(col, by, row) ==
    SeqCall(Args("UpdateAll", col, by, row), UpdateAll(rows, col, by, row))

SeqDelete(col, id) ==
    SeqCall(Args("Delete", col, id, <<>>), Delete(rows, col, id))

SeqDeleteAll(col, by) ==
    SeqCall(Args("DeleteAll", col, by, <<>>), DeleteAll(rows, col, by))

SeqNext ==
    \/ \E row \in Row : SeqInsert(row)
    \/ \E batch \in SeqsUpTo(ConcRow, MaxRows) : SeqInsertAll(batch)
    \/ \E col \in Cols, id \in Field, row \in Row : SeqUpdate(col, id, row)
    \/ \E col \in Cols, by \in Field, row \in Row : SeqUpdateAll(col, by, row)
    \/ \E col \in Cols, id \in Field : SeqDelete(col, id)
    \/ \E col \in Cols, by \in Field : SeqDeleteAll(col, by)

SeqSpec == Init /\ [][SeqNext]_vars

\* ------------------------------------------------ reads after mutations
\* One caller inserts and deletes rows and between these calls reads the
\* table.
ReadNext ==
    \/ \E row \in Row : SeqInsert(row)
    \/ \E col \in Cols, id \in Field : SeqDelete(col, id)
    \/ \E col \in Cols \cup {FarCol}, id \in Field : SeqSelect(col, id)

ReadSpec == Init /\ [][ReadNext]_vars

\* ------------------------------------------------------ insertion order
\* One caller inserts rows of InsRow, overwrites rows by the row of UpdRow,
\* which is none of them, and reads; it never deletes.  log is the sequence
\* of the rows it appended.
InsRow == {<<"a", "a">>, <<"a", "b">>, <<"b">>}
UpdRow == {<<"a", "c">>}

OrdInsert(row) ==
    /\ Len(rows) < SeqMaxRows
    /\ SeqDo(Args("Insert", 0, "", row), Res(AppendRows(rows, <<row>>), Nil))
    /\ log' = Append(log, row)

OrdInsertAll(batch) ==
    /\ Len(rows) + Len(batch) <= SeqMaxRows
    /\ SeqDo(Args("InsertAll", 0, "", batch), Res(AppendRows(rows, batch), Nil))
    /\ log' = log \o batch

OrdNext ==
    \/ \E row \in InsRow : OrdInsert(row)
    \/ \E batch \in SeqsUpTo(InsRow, MaxRows) : OrdInsertAll(batch)
    \/ \E col \in Cols, id \in Field, row \in UpdRow : SeqUpdate(col, id, row)
    \/ \E col \in Cols, by \in Field, row \in UpdRow : SeqUpdateAll(col, by, row)
    \/ SeqAll
    \/ \E col \in Cols, id \in Field : SeqSelect(col, id)

OrdSpec == Init /\ [][OrdNext]_vars

\* ------------------------------------------------------ calls of records
\* One caller calls the operations that encode, with records of which some
\* cannot be encoded.
Given(kind, col, key, recs) ==
    [kind |-> kind, col |-> col, key |-> key, recs |-> recs, err |-> Nil]

EncInsert(rec) ==
    /\ Len(rows) < SeqMaxRows
    /\ SeqCall(Given("Insert", 0, "", <<rec>>), InsertRecs(rows, <<rec>>))

EncInsertAll(recs) ==
    /\ Len(rows) + Len(recs) <= SeqMaxRows
    /\ SeqCall(Given("InsertAll", 0, "", recs), InsertRecs(rows, recs))

EncUpdate(col, id, rec) ==
    SeqCall(Given("Update", col, id, <<rec>>), UpdateRec(rows, col, id, rec))

EncUpdateAll(col, by, rec) ==
    SeqCall(Given("UpdateAll", col, by, <<rec>>), UpdateAllRec(rows, col, by, rec))

EncNext ==
    \/ \E rec \in Rec \cup {Broken} : EncInsert(rec)
    \/ \E recs \in SeqsUpTo(Rec \cup {Broken}, SeqMaxRows) : EncInsertAll(recs)
    \/ \E col \in Cols, id \in Field, rec \in Rec \cup {Broken} :
          EncUpdate(col, id, rec)
    \/ \E col \in Cols, by \in Field, rec \in Rec \cup {Broken} :
          EncUpdateAll(col, by, rec)

EncSpec == Init /\ [][EncNext]_vars

\* ================================================================ claims
\* How often row r occurs in rs.
Count(rs, r) == Cardinality({i \in 1 .. Len(rs) : rs[i] = r})

AllIdle == \A c \in Busy : pc[c] = "idle"

\* Caller c returns from its call in this step.
Returns(c) == pc[c] # "idle" /\ pc'[c] = "idle"

\* C1: after an orderly shutdown (Close called while the worker runs, after
\* every mutating call has returned, and no call after it) the file the
\* worker closes holds exactly t.rows.
C1_NoMutationLostAtShutdown == wpc = "closed" => file = rows

\* C2: Close does not return before the worker has closed the file.
C2_CloseWaitsForWorker == closeRet => wpc = "closed"

\* C3, as claimed: once Close was called and ListenChange runs, the worker
\* eventually closes the file and ListenChange returns.
C3_ShutdownCompletes == (closeCh /\ wpc # "notStarted") ~> (wpc = "closed")

\* C3, amended: once Close was called and ListenChange runs, the worker
\* eventually closes the file and returns, or it has panicked on a flush
\* that failed.
C3_ShutdownCompletesOrPanics ==
    (closeCh /\ wpc # "notStarted") ~> (wpc \in {"closed", "panicked"})

\* The worker has closed the file while a notification is pending and a
\* caller is in a call.
C3_Witness ==
    wpc = "closed" /\ changed > 0 /\ \E c \in Busy : pc[c] # "idle"

\* C4, as claimed: every call of every caller eventually returns.
C4_CallsReturn == \A c \in Busy : (pc[c] # "idle") ~> (pc[c] = "idle")

\* C4, amended: every call of every caller eventually returns, unless a
\* flush fails and the worker's panic ends the process.
C4_CallsReturnOrPanic ==
    \A c \in Busy : (pc[c] # "idle") ~> (pc[c] = "idle" \/ wpc = "panicked")

\* A caller is at its send with the channel full and no worker to drain it.
C4_Witness ==
    \E c \in Busy : pc[c] = "send" /\ changed = ChangedCap /\ wpc = "notStarted"

\* C5: with a worker running, no shutdown and no failed flush, once callers
\* have stopped calling the file eventually holds t.rows for good.
C5_NoUpdateDropped ==
    ([](~closeCh /\ wpc # "panicked") /\ <>(wpc # "notStarted") /\ <>[]AllIdle)
        => <>[](file = rows)

\* C6: at most one notification is buffered, a send onto the full channel
\* leaves it as it is, and when the worker receives a notification none is
\* left behind it: the mutations since the last receive cost one flush.
C6_Coalescing ==
    /\ [](changed \in 0 .. ChangedCap)
    /\ [][\A c \in Callers :
            (pc[c] = "send" /\ pc'[c] # "send" /\ changed = ChangedCap)
                => changed' = changed]_vars
    /\ [][(wpc = "select" /\ wpc' = "lock") => (changed = 1 /\ changed' = 0)]_vars

\* Both callers are at their send and the channel is full.
C6_Witness == changed = ChangedCap /\ \A c \in Busy : pc[c] = "send"

\* C7: when a mutating call returns nil, a notification is buffered or the
\* worker has received one since the call's change was applied.
C7_SuccessNotifies ==
    [][\A c \in Callers :
         (Returns(c) /\ op[c] \in Mutators /\ ret[c] = Nil)
             => (changed' > 0 \/ seen[c])]_vars

\* A scanning mutator is about to return nil with the channel empty: the
\* worker received the notification after the change was applied.
C7_Witness ==
    \E c \in Busy :
        /\ op[c] \in Scanners
        /\ pc[c] = "unlock"
        /\ ret[c] = Nil
        /\ changed = 0
        /\ seen[c]

\* C8: the row of every caller whose Insert has returned is in t.rows
\* exactly once, and when all NumCallers have returned t.rows has grown by
\* exactly NumCallers rows.
C8_ParallelInserts ==
    /\ \A c \in inserted : Count(rows, RowOf(c)) = 1
    /\ inserted = Callers => Len(rows) = NumCallers

\* Every caller has inserted and the worker has flushed all the rows.
C8_Witness == inserted = Callers /\ Len(rows) = NumCallers /\ file = rows

\* C9: a scanning mutator that returns FindOutOfIndex leaves t.rows as it
\* found it.
C9_OutOfRangeNoMutation ==
    (call.kind \in Scanners /\ call.err = FindOutOfIndex) => rows = before

\* No row of rs is too short for column col.
Wide(rs, col) == \A i \in 1 .. Len(rs) : Len(rs[i]) > col

Matches(rs, col, key) == {i \in 1 .. Len(rs) : rs[i][col + 1] = key}

\* C10: on rows that all have more than col fields, a scanning mutator
\* returns ValueNotFound exactly when no row has the key in column col, and
\* then leaves t.rows as it found it.
C10_NotFoundNoMutation ==
    (call.kind \in Scanners /\ Wide(before, call.col)) =>
        /\ call.err = ValueNotFound <=> Matches(before, call.col, call.key) = {}
        /\ call.err = ValueNotFound => rows = before

\* A scan of a full table of wide rows found no match.
C10_Witness ==
    /\ call.kind \in Scanners
    /\ call.err = ValueNotFound
    /\ Len(before) = SeqMaxRows
    /\ Wide(before, call.col)

\* The indices of the rows of rs that have the key in column col.
Hits(rs, col, key) ==
    {i \in 1 .. Len(rs) : Len(rs[i]) > col /\ rs[i][col + 1] = key}

\* The lowest index of a non-empty set of indices.
First(S) == CHOOSE i \in S : \A j \in S : i <= j

\* C11: on rows that all have more than col fields, DeleteAll returns
\* ValueNotFound exactly when no row has the key in column col; otherwise
\* no remaining row has it and every other row is left as often as it
\* occurred before.
C11_DeleteAllExact ==
    (call.kind = "DeleteAll" /\ Wide(before, call.col)) =>
        /\ call.err = ValueNotFound <=> Hits(before, call.col, call.key) = {}
        /\ call.err # ValueNotFound =>
            /\ call.err = Nil
            /\ Hits(rows, call.col, call.key) = {}
            /\ \A r \in Row :
                 Count(rows, r) =
                     IF Len(r) > call.col /\ r[call.col + 1] = call.key
                     THEN 0 ELSE Count(before, r)

\* DeleteAll removed the first and the last of three rows and kept the one
\* between them.
C11_Witness ==
    /\ call.kind = "DeleteAll"
    /\ call.err = Nil
    /\ Len(before) = 3
    /\ Hits(before, call.col, call.key) = {1, 3}
    /\ Len(rows) = 1

\* C13: a successful Delete removes the first row that has the key in
\* column col and nothing else: t.rows is one row shorter, the row that was
\* last stands where the deleted row stood (unless that was the last row),
\* and every other row keeps its index.
C13_DeleteFrame ==
    (call.kind = "Delete" /\ call.err = Nil) =>
        LET H == Hits(before, call.col, call.key)
            n == Len(before)
        IN  /\ H # {}
            /\ Len(rows) = n - 1
            /\ \A j \in 1 .. n - 1 :
                 rows[j] = IF j = First(H) THEN before[n] ELSE before[j]

\* Delete removed the first of two matching rows of a table of three.
C13_Witness ==
    /\ call.kind = "Delete"
    /\ call.err = Nil
    /\ Hits(before, call.col, call.key) = {1, 2}
    /\ Len(before) = 3
    /\ before[3] # before[2]

\* C16: on rows that all have more than col fields a successful UpdateAll
\* replaces every row that has the key in column col by the one new row and
\* leaves the length and every other row as they were; a successful Update
\* replaces only the first such row.
C16_UpdateFrame ==
    /\ (call.kind = "UpdateAll" /\ Wide(before, call.col) /\ call.err = Nil) =>
        /\ Hits(before, call.col, call.key) # {}
        /\ Len(rows) = Len(before)
        /\ \A i \in 1 .. Len(before) :
             rows[i] = IF i \in Hits(before, call.col, call.key)
                       THEN call.row ELSE before[i]
    /\ (call.kind = "Update" /\ call.err = Nil) =>
        /\ Hits(before, call.col, call.key) # {}
        /\ rows = [before EXCEPT ![First(Hits(before, call.col, call.key))] = call.row]

\* UpdateAll replaced two of three rows by a row that differs from both.
C16_Witness ==
    /\ call.kind = "UpdateAll"
    /\ call.err = Nil
    /\ Wide(before, call.col)
    /\ Hits(before, call.col, call.key) = {1, 3}
    /\ before[1] # call.row
    /\ before[3] # call.row
    /\ rows[2] = before[2]

\* The indices of the rows of rs that are too short for column col.
Short(rs, col) == {i \in 1 .. Len(rs) : Len(rs[i]) <= col}

\* A scan of rs for the key in column col meets a short row before it meets
\* a match.
Blocked(rs, col, key) ==
    \E s \in Short(rs, col) : \A h \in Hits(rs, col, key) : s < h

\* The read returned no record and no error.
NotFound(r) == r.err = Nil /\ r.res = <<>>

\* The read returned what FromRow makes of the row: its record, or its
\* error.
Decoded(r, row) ==
    IF FromRowOk(row)
    THEN r.err = Nil /\ r.res = <<FromRow(row)>>
    ELSE r.err = DecodeError /\ r.res = <<>>

\* Select(col, key) was the read right after the successful Delete(col, key).
DeleteThenSelect ==
    /\ call.kind = "Delete"
    /\ call.err = Nil
    /\ read.kind = "Select"
    /\ read.col = call.col
    /\ read.key = call.key

\* C12, as claimed: Select right after a successful Delete of the same key
\* returns not-found, whatever the rows.
C12_DeleteThenSelectNotFound == DeleteThenSelect => NotFound(read)

\* C12, amended: Select right after a successful Delete of the same key
\* returns not-found exactly when the deleted row was the only one with the
\* key and no remaining row is too short for the column.
C12_DeleteOnlyMatchThenSelect ==
    DeleteThenSelect =>
        (NotFound(read) <=>
            /\ Cardinality(Hits(before, call.col, call.key)) = 1
            /\ Wide(rows, call.col))

\* The only row with the key was deleted from a table of three rows and
\* Select did not find the key.
C12_Witness ==
    /\ DeleteThenSelect
    /\ NotFound(read)
    /\ Len(before) = 3
    /\ Hits(before, call.col, call.key) = {1}

\* Select(col, key) was the read right after the Insert of a row that has
\* the key in column col.
InsertThenSelect ==
    /\ call.kind = "Insert"
    /\ read.kind = "Select"
    /\ Len(call.row) > read.col
    /\ call.row[read.col + 1] = read.key

\* The first row with the key after the Insert: an earlier row of the table
\* that has it, else the inserted row.
FirstWithKey ==
    IF Hits(before, read.col, read.key) # {}
    THEN before[First(Hits(before, read.col, read.key))]
    ELSE call.row

\* C14, as claimed: Select right after Insert returns the record of the
\* first row with the key.
C14_SelectAfterInsert == InsertThenSelect => Decoded(read, FirstWithKey)

\* C14, amended: Select right after Insert returns the record of the first
\* row with the key, unless a row before it is too short for the column:
\* then it returns FindOutOfIndex.
C14_SelectAfterInsertUnlessShort ==
    InsertThenSelect =>
        IF Blocked(before, read.col, read.key)
        THEN read.err = FindOutOfIndex /\ read.res = <<>>
        ELSE Decoded(read, FirstWithKey)

\* Select returned the record of an earlier row with the key, not of the
\* inserted row.
C14_Witness ==
    /\ InsertThenSelect
    /\ Hits(before, read.col, read.key) # {}
    /\ FirstWithKey # call.row
    /\ read.err = Nil
    /\ read.res = <<FromRow(FirstWithKey)>>

\* C19: Select returns FindOutOfIndex exactly when a row too short for the
\* column stands before the first match (or anywhere, when there is none);
\* otherwise it returns the first match, or no record and no error when
\* there is none.  Select of column FarCol on a table that is not empty
\* returns FindOutOfIndex.
C19_SelectErrors ==
    read.kind = "Select" =>
        /\ read.err = FindOutOfIndex <=> Blocked(rows, read.col, read.key)
        /\ ~Blocked(rows, read.col, read.key) =>
            IF Hits(rows, read.col, read.key) = {}
            THEN NotFound(read)
            ELSE Decoded(read, rows[First(Hits(rows, read.col, read.key))])
        /\ (read.col = FarCol /\ Len(rows) > 0) => read.err = FindOutOfIndex

\* Select met a short row before the match that follows it.
C19_Witness ==
    /\ read.kind = "Select"
    /\ read.err = FindOutOfIndex
    /\ read.col # FarCol
    /\ Hits(rows, read.col, read.key) # {}

\* C15: while nothing is deleted, t.rows holds at every index the row that
\* was appended there, or the row an update wrote over it, and a successful
\* All returns the records of these rows, index by index.
C15_InsertionOrder ==
    /\ Len(rows) = Len(log)
    /\ \A i \in 1 .. Len(log) : rows[i] = log[i] \/ rows[i] \in UpdRow
    /\ (read.kind = "All" /\ read.err = Nil) =>
        /\ Len(read.res) = Len(log)
        /\ \A i \in 1 .. Len(log) :
             \/ rows[i] = log[i] /\ read.res[i] = FromRow(log[i])
             \/ read.res[i] \in {FromRow(u) : u \in UpdRow}

\* All returned three records after three appends of rows that are not all
\* equal and an update of the last of them.
C15_Witness ==
    /\ read.kind = "All"
    /\ read.err = Nil
    /\ Len(log) = 3
    /\ log[1] # log[2]
    /\ rows[1] = log[1]
    /\ rows[2] = log[2]
    /\ rows[3] \in UpdRow

\* The rows of the batch of caller c are not in rs, or they are in rs once
\* each, at consecutive indices and in the order of the batch.
Whole(rs, c) ==
    \/ \A j \in 1 .. Len(BatchOf(c)) : Count(rs, BatchOf(c)[j]) = 0
    \/ /\ \A j \in 1 .. Len(BatchOf(c)) : Count(rs, BatchOf(c)[j]) = 1
       /\ \E i \in 1 .. Len(rs) - Len(BatchOf(c)) + 1 :
            SubSeq(rs, i, i + Len(BatchOf(c)) - 1) = BatchOf(c)

\* C17: the batch of an InsertAll is in t.rows whole or not at all, and
\* whole once the call has returned; so it is in what a flush reads and,
\* unless a flush failed, in the file; and only the last step of a call
\* sends, one notification at most.
C17_InsertAllAtomic ==
    /\ [](\A c \in Busy :
            /\ Whole(rows, c)
            /\ c \in inserted => Count(rows, BatchOf(c)[1]) = 1
            /\ wpc # "panicked" => Whole(file, c))
    /\ [][changed' # changed =>
            \/ changed' = changed - 1 /\ wpc = "select" /\ wpc' = "lock"
            \/ /\ changed' = changed + 1
               /\ \E c \in Busy : pc[c] = "send" /\ pc'[c] = "idle"]_vars

\* Both batches are in t.rows and in the file, the batch of caller 2 first.
C17_Witness ==
    /\ inserted = Busy
    /\ rows = BatchOf(2) \o BatchOf(1)
    /\ file = rows

\* ToRow fails on a record of recs.
HasBroken(recs) == \E i \in 1 .. Len(recs) : ~ToRowOk(recs[i])

\* C18: a call given a record that ToRow fails on returns the error of
\* ToRow and leaves t.rows, the channel and the mutex as they were.
C18_FailedEncodeNoEffect ==
    [][HasBroken(call'.recs) =>
          /\ call'.err = EncodeError
          /\ rows' = rows
          /\ changed' = changed
          /\ mutex' = mutex]_vars

\* InsertAll returned the error of ToRow for a batch of three records of
\* which only the last could not be encoded.
C18_Witness ==
    /\ call.kind = "InsertAll"
    /\ call.err = EncodeError
    /\ Len(call.recs) = 3
    /\ ~HasBroken(SubSeq(call.recs, 1, 2))
    /\ rows = before

\* C20: once Close has returned the channel t.close is closed and stays
\* closed, and whenever the worker is in its select after that it can take
\* the close case, whether or not a notification is pending.
C20_CloseNotMissed ==
    /\ [](closeRet => closeCh)
    /\ [][closeCh => closeCh']_vars
    /\ []((closeCh /\ wpc = "select") => ENABLED RecvClose)

\* Close was called before the worker came back to its select, where a
\* notification is pending as well and the file is behind t.rows.
C20_Witness ==
    /\ closeCh
    /\ wpc = "select"
    /\ changed = ChangedCap
    /\ file # rows

\* C21: after a Close called while the worker was idle, nothing was pending
\* and no call was in progress, the worker starts no flush: it does not
\* receive a notification that was sent after the call.
C21_NoFlushAfterClose == closeCh => wpc \notin {"lock", "flush"}

\* C22: once the worker has closed the file it stays closed and the file
\* keeps its content, whatever callers change and send afterwards.
C22_NoFlushAfterFileClosed ==
    [][wpc = "closed" => (wpc' = "closed" /\ file' = file)]_vars

\* The file is closed, the rows have changed since the last flush and a
\* notification is pending.
C22_Witness == wpc = "closed" /\ changed = ChangedCap /\ rows # file

\* C23: a flush that did not write every row ends the worker, and a worker
\* that has ended stays so and leaves the file as it is: no retry, no other
\* flush, no return to the select.
C23_FlushFailureIsFatal ==
    [][/\ (wpc = "flush" /\ wpc' # "flush" /\ file' # rows) => wpc' = "panicked"
       /\ wpc = "panicked" => (wpc' = "panicked" /\ file' = file)]_vars

\* The worker has failed in a flush that left the file short of the rows,
\* with the lock held and a notification pending.
C23_Witness ==
    wpc = "panicked" /\ file # rows /\ mutex /\ changed = ChangedCap

\* C24: only a mutating call that succeeded reaches the send, and no step
\* of any other call (a read, a mutating call that returns an error)
\* changes the buffer of notifications.
C24_FailuresAndReadsDoNotNotify ==
    [][\A c \in Busy :
          /\ pc'[c] = "send" => (op'[c] \in Mutators /\ ret'[c] = Nil)
          /\ (pc'[c] # pc[c] /\ ~Applied(c)) => changed' = changed]_vars

\* With nothing pending and nothing to flush, a mutating call has failed
\* and is about to return its error.
C24_Witness ==
    /\ changed = 0
    /\ wpc = "select"
    /\ \E c \in Busy :
          pc[c] = "unlock" /\ op[c] \in Scanners /\ ret[c] \in {FindOutOfIndex, ValueNotFound}

\* C25: a caller reaches its send by releasing the lock: the step that
\* takes a mutating call to the send is its unlock.
C25_UnlockBeforeSend ==
    [][\A c \in Busy :
          (pc[c] # "send" /\ pc'[c] = "send") => (mutex /\ ~mutex')]_vars

\* Caller c is between its t.mutex.Lock() and its t.mutex.Unlock(): every
\* access of t.rows by a caller is made there.
Holds(c) ==
    \/ pc[c] \in {"load", "store", "body", "unlock"}
    \/ pc[c] = "send" /\ op[c] \in Scanners

\* The processes between their Lock and their Unlock; the worker (0) is
\* there while it writes t.rows to the file.
Holders == {c \in Callers : Holds(c)} \cup (IF wpc = "flush" THEN {0} ELSE {})

\* C26: at most one process, callers and worker together, is between its
\* Lock and its Unlock, where all accesses of the rows are made; it holds
\* the mutex; and the mutex is free when no process is there, whatever the
\* calls returned.
C26_MutualExclusion ==
    /\ Cardinality(Holders) <= 1
    /\ Holders # {} => mutex
    /\ (Alive /\ Holders = {}) => ~mutex

\* A caller scans the rows under the lock while another caller and the
\* worker wait for it.
C26_Witness ==
    /\ mutex
    /\ wpc = "lock"
    /\ \E c, d \in Busy : pc[c] = "body" /\ pc[d] = "lock"

\* C27: a flush that completes has written the rows as they are at that
\* instant, which no caller is changing: no call is between its Lock and
\* its Unlock, so every change applied so far is in the file whole.
C27_FlushWritesSnapshot ==
    [][(wpc = "flush" /\ wpc' = "select") =>
          /\ file' = rows
          /\ rows' = rows
          /\ \A c \in Callers : ~Holds(c)]_vars

\* A flush has completed and written two rows or more, while a caller waits
\* for the lock.
C27_Witness ==
    /\ wpc = "select"
    /\ ~mutex
    /\ file = rows
    /\ Len(rows) > 1
    /\ \E c \in Busy : pc[c] = "lock"

\* Caller c has applied its change and has not executed its send yet.
NotYetSent(c) ==
    /\ Applied(c)
    /\ \/ pc[c] = "send"
       \/ pc[c] = "unlock" /\ op[c] \in Appenders

\* C28: while the worker runs and Close has not been called, rows that
\* differ from the file are announced: a notification is pending, or the
\* worker has received one and not written the rows yet, or a caller has
\* applied its change and not executed its send yet.
C28_DirtyIsAnnounced ==
    (Running /\ ~closeCh /\ rows # file) =>
        \/ changed > 0
        \/ wpc \in {"lock", "flush"}
        \/ \E c \in Callers : NotYetSent(c)

====
